---- MODULE Spec2Model ----
(***************************************************************************)
(* Model of src/app.py: the click handler process_invoice_data and the     *)
(* Gradio components it updates.                                           *)
(*                                                                         *)
(* Representation.                                                         *)
(*  - A JSON object is a record with one field per key the code reads; a   *)
(*    field holds <<>> when the key is missing and <<v>> when it is        *)
(*    present, so that dict.get(key, default) is Get(d.key, default).      *)
(*  - A text that the code parses or formats is a sequence of one-         *)
(*    character strings, e.g. "1,000.00" is <<"1",",","0","0","0",".",     *)
(*    "0","0">>.                                                           *)
(*  - A Python float is an integer number of hundredths (the resolution of *)
(*    the currency format of lines 107, 123 and 148).  The numerals fed to *)
(*    the model have at most two fraction digits, no exponent and are      *)
(*    finite, and their sums stay far below 2^31.  On these numerals the   *)
(*    comparison of math.isclose and the two-digit formats give the same   *)
(*    results in hundredths as in binary floating point.                   *)
(***************************************************************************)
EXTENDS Integers, Sequences, FiniteSets, TLC

VARIABLES
    status_output,          \* HTML banner of the sidebar
    results_col,            \* visible flag of the results column
    placeholder_col,        \* visible flag of the placeholder column
    results_header,         \* <<>> or <<header>>
    kpi_prompt,             \* <<>> or <<text>>
    kpi_tokens,             \* <<>> or <<text>>
    kpi_cost,               \* <<>> or <<characters>>
    kpi_lines,              \* <<>> or <<count>>
    line_items_table,       \* sequence of rows
    json_output,            \* <<>> or <<payload>>
    validated_status_box,   \* visible flag of the VALIDATED badge
    mismatch_status_box,    \* [visible, value] of the MISMATCH badge
    pdf_file,               \* argument of the latest call: "None" or "file"
    response,               \* outcome of the upstream call of the latest call
    returned,               \* keys of the dictionary the latest call returned
    pc                      \* "idle", "pending" or "done"

vars == <<status_output, results_col, placeholder_col, results_header,
          kpi_prompt, kpi_tokens, kpi_cost, kpi_lines, line_items_table,
          json_output, validated_status_box, mismatch_status_box,
          pdf_file, response, returned, pc>>

(***************************************************************************)
(* Bounds of the model.                                                    *)
(***************************************************************************)
MaxItems == 2

MaxLocations == 2

(***************************************************************************)
(* Program constants.                                                      *)
(***************************************************************************)
\* rel_tol=1e-2 is 1 / RelTolInverse
RelTolInverse == 100

\* fraction digits of the currency format ":,.2f"
CurrencyDigits == 2

\* fraction digits of the cost format ":.4f"
CostDigits == 4

\* digits per group of the "," option of the currency format
GroupSize == 3

(***************************************************************************)
(* dict.get and small helpers.                                             *)
(***************************************************************************)
Get(field, default) == IF Len(field) = 0 THEN default ELSE field[1]

Abs(x) == IF x < 0 THEN -x ELSE x

Max(x, y) == IF x >= y THEN x ELSE y

RECURSIVE Pow10(_)
Pow10(n) == IF n = 0 THEN 1 ELSE 10 * Pow10(n - 1)

\* hundredths per unit
Scale == Pow10(CurrencyDigits)

Digits == {"0", "1", "2", "3", "4", "5", "6", "7", "8", "9"}

DigitChars == <<"0", "1", "2", "3", "4", "5", "6", "7", "8", "9">>

DigitValue(c) == CHOOSE d \in 0..9 : DigitChars[d + 1] = c

(***************************************************************************)
(* str(x): a JSON string is itself, a JSON null is the text None.          *)
(***************************************************************************)
str(x) == IF x.kind = "null" THEN <<"N", "o", "n", "e">> ELSE x.chars

\* .replace(',', '')
replace_commas(s) == SelectSeq(s, LAMBDA c : c # ",")

(***************************************************************************)
(* float(s) for the fixed-point numerals: optional blanks around, an       *)
(* optional sign, digits with at most one point and at least one digit.    *)
(***************************************************************************)
RECURSIVE lstrip(_, _)
lstrip(s, chars) ==
    IF Len(s) > 0 /\ s[1] \in chars THEN lstrip(Tail(s), chars) ELSE s

RECURSIVE rstrip(_, _)
rstrip(s, chars) ==
    IF Len(s) > 0 /\ s[Len(s)] \in chars
    THEN rstrip(SubSeq(s, 1, Len(s) - 1), chars)
    ELSE s

strip(s, chars) == rstrip(lstrip(s, chars), chars)

Unsigned(s) ==
    LET t == strip(s, {" "})
    IN  IF Len(t) > 0 /\ t[1] \in {"-", "+"} THEN Tail(t) ELSE t

IsNegative(s) ==
    LET t == strip(s, {" "}) IN Len(t) > 0 /\ t[1] = "-"

PointAt(u) ==
    IF \E i \in 1..Len(u) : u[i] = "."
    THEN CHOOSE i \in 1..Len(u) : u[i] = "." /\ \A j \in 1..(i - 1) : u[j] # "."
    ELSE Len(u) + 1

\* True when float(s) returns, false when it raises ValueError.
float_ok(s) ==
    LET u == Unsigned(s)
    IN  /\ \A i \in 1..Len(u) : u[i] \in Digits \cup {"."}
        /\ Cardinality({i \in 1..Len(u) : u[i] = "."}) <= 1
        /\ \E i \in 1..Len(u) : u[i] \in Digits

RECURSIVE DigitsValue(_)
DigitsValue(ds) ==
    IF Len(ds) = 0 THEN 0
    ELSE 10 * DigitsValue(SubSeq(ds, 1, Len(ds) - 1)) + DigitValue(ds[Len(ds)])

\* The fraction digits, cut or padded with zeros to CurrencyDigits digits.
FractionValue(fs) ==
    LET n == IF Len(fs) < CurrencyDigits THEN Len(fs) ELSE CurrencyDigits
    IN  DigitsValue(SubSeq(fs, 1, n)) * Pow10(CurrencyDigits - n)

\* The value of float(s), in hundredths, for a text float_ok accepts.
float(s) ==
    LET u == Unsigned(s)
        p == PointAt(u)
        magnitude == DigitsValue(SubSeq(u, 1, p - 1)) * Scale
                     + FractionValue(SubSeq(u, p + 1, Len(u)))
    IN  IF IsNegative(s) THEN -magnitude ELSE magnitude

(***************************************************************************)
(* f"{x:,.2f}" and f"{x:.4f}" of a value in hundredths.                    *)
(***************************************************************************)
RECURSIVE IntDigits(_)
IntDigits(n) ==
    IF n < 10 THEN <<DigitChars[n + 1]>>
    ELSE IntDigits(n \div 10) \o <<DigitChars[(n % 10) + 1]>>

RECURSIVE Grouped(_)
Grouped(ds) ==
    IF Len(ds) <= GroupSize THEN ds
    ELSE Grouped(SubSeq(ds, 1, Len(ds) - GroupSize))
         \o <<",">> \o SubSeq(ds, Len(ds) - GroupSize + 1, Len(ds))

RECURSIVE FractionDigits(_, _)
FractionDigits(n, width) ==
    IF width = 0 THEN <<>>
    ELSE FractionDigits(n \div 10, width - 1) \o <<DigitChars[(n % 10) + 1]>>

SignChars(x) == IF x < 0 THEN <<"-">> ELSE <<>>

format_currency(x) ==
    SignChars(x) \o Grouped(IntDigits(Abs(x) \div Scale))
    \o <<".">> \o FractionDigits(Abs(x) % Scale, CurrencyDigits)

format_cost(x) ==
    SignChars(x) \o IntDigits(Abs(x) \div Scale)
    \o <<".">>
    \o FractionDigits((Abs(x) % Scale) * Pow10(CostDigits - CurrencyDigits),
                      CostDigits)

(***************************************************************************)
(* math.isclose(a, b, rel_tol=1e-2) with abs_tol = 0, on finite values:    *)
(* diff <= |rel_tol * b| or diff <= |rel_tol * a|.                         *)
(***************************************************************************)
\* Variant: "<" for "<=".
isclose_strict(a, b) ==
    LET diff == Abs(b - a)
    IN  \/ RelTolInverse * diff < Abs(b)
        \/ RelTolInverse * diff < Abs(a)

\* Variant: the tolerance is relative to the first argument only.
isclose_one_sided(a, b) == RelTolInverse * Abs(b - a) <= Abs(a)

isclose(a, b) ==
    LET diff == Abs(b - a)
    IN  \/ RelTolInverse * diff <= Abs(b)
        \/ RelTolInverse * diff <= Abs(a)

(***************************************************************************)
(* The empty dictionaries the lookups default to.                          *)
(***************************************************************************)
EmptyAddress == [street |-> <<>>, city |-> <<>>, state |-> <<>>, zip |-> <<>>]

EmptyLocation ==
    [location_name |-> <<>>, address |-> <<>>, line_items |-> <<>>]

EmptyContent ==
    [Prompt_Version |-> <<>>, NoOfTokensUsed |-> <<>>,
     GPTCostIncurred |-> <<>>, invoice_number |-> <<>>,
     invoice_total |-> <<>>, accrual_date |-> <<>>, due_date |-> <<>>,
     service_locations |-> <<>>]

EmptyMessage == [content |-> <<>>]

\* Variant: the numeric lookups have no default, and a missing key reads None.
ZeroText_none == [kind |-> "null", chars |-> <<>>]

\* The JSON string "0", the default of the three numeric lookups.
ZeroText == [kind |-> "str", chars |-> <<"0">>]

(***************************************************************************)
(* The locals of the try block of process_invoice_data (lines 80-148).     *)
(***************************************************************************)
content_of(json_data) ==
    Get(Get(json_data.message, EmptyMessage).content, EmptyContent)

cost_text(content) ==
    replace_commas(str(Get(content.GPTCostIncurred, ZeroText)))

\* The list that "[0]" indexes on line 91.
first_lookup(content) == Get(content.service_locations, <<EmptyLocation>>)

\* Variant: "[-1]" for "[0]".
line_items_raw_last(content) ==
    Get(first_lookup(content)[Len(first_lookup(content))].line_items, <<>>)

line_items_raw(content) == Get(first_lookup(content)[1].line_items, <<>>)

\* Variant: an unparsable total is read as "0".
total_text_lenient(item) ==
    LET text == replace_commas(str(Get(item.total, ZeroText)))
    IN  IF float_ok(text) THEN text ELSE <<"0">>

total_text(item) == replace_commas(str(Get(item.total, ZeroText)))

invoice_total_text(content) ==
    replace_commas(str(Get(content.invoice_total, ZeroText)))

RECURSIVE sum_totals(_)
sum_totals(items) ==
    IF Len(items) = 0 THEN 0
    ELSE float(total_text(items[1])) + sum_totals(Tail(items))

\* An exception is raised somewhere between line 81 and line 148.
try_raises(json_data) ==
    LET content == content_of(json_data)
    IN  \/ ~float_ok(cost_text(content))
        \/ Len(first_lookup(content)) = 0
        \/ \E i \in 1..Len(line_items_raw(content)) :
               ~float_ok(total_text(line_items_raw(content)[i]))
        \/ ~float_ok(invoice_total_text(content))

AddressSeparators == {",", " "}

full_address(addr) ==
    strip(SelectSeq(<<Get(addr.street, ""), " ", Get(addr.city, ""), ",", " ",
                      Get(addr.state, ""), " ", Get(addr.zip, "")>>,
                    LAMBDA t : t # ""),
          AddressSeparators)

service_location_entry(loc) ==
    LET full == full_address(Get(loc.address, EmptyAddress))
    IN  [dt |-> Get(loc.location_name, "N/A"),
         dd |-> IF Len(full) = 0 THEN <<"Address not found">> ELSE full]

service_locations_html(content) ==
    LET service_locations_data == Get(content.service_locations, <<>>)
    IN  [i \in 1..Len(service_locations_data) |->
            service_location_entry(service_locations_data[i])]

header_html(content) ==
    [invoice_number |-> Get(content.invoice_number, "N/A"),
     invoice_total  |-> <<"$">> \o format_currency(float(invoice_total_text(content))),
     accrual_date   |-> Get(content.accrual_date, "N/A"),
     due_date       |-> Get(content.due_date, "N/A"),
     service_locations |-> service_locations_html(content)]

\* Variant: enumerate(line_items_raw) without the start of 1.
line_item_row_zero_based(i, item) ==
    [Line |-> <<i - 1>>, Date |-> item.date, Description |-> item.description,
     Qty |-> item.quantity,
     Total |-> <<"$">> \o format_currency(float(total_text(item)))]

line_item_row(i, item) ==
    [Line |-> <<i>>, Date |-> item.date, Description |-> item.description,
     Qty |-> item.quantity,
     Total |-> <<"$">> \o format_currency(float(total_text(item)))]

total_row(line_total_sum) ==
    [Line |-> <<>>, Date |-> <<>>, Description |-> <<"Subtotal">>,
     Qty |-> <<>>, Total |-> <<"$">> \o format_currency(line_total_sum)]

line_items_df(items) ==
    IF Len(items) = 0 THEN <<>>
    ELSE [i \in 1..Len(items) |-> line_item_row(i, items[i])]
         \o <<total_row(sum_totals(items))>>

(***************************************************************************)
(* The dictionaries process_invoice_data returns.  An update of the        *)
(* MISMATCH badge carries <<>> when it sets no value.                      *)
(***************************************************************************)
NoFileBanner == "status-box error: Please upload a PDF file."

NetworkBanner == "status-box error: A network error occurred."

ParseBanner == "status-box error: Error processing response data."

SuccessBanner == "status-box success: Analysis Complete."

ErrorBanners == {NoFileBanner, NetworkBanner, ParseBanner}

\* Variant: the error paths do not switch the columns.
initial_updates_keeps_results(banner) ==
    [status_output        |-> banner,
     validated_status_box |-> FALSE,
     mismatch_status_box  |-> [visible |-> FALSE, value |-> <<>>]]

\* Variant: the error paths do not hide the badges.
initial_updates_keeps_badges(banner) ==
    [status_output   |-> banner,
     results_col     |-> FALSE,
     placeholder_col |-> TRUE]

initial_updates(banner) ==
    [status_output        |-> banner,
     results_col          |-> FALSE,
     placeholder_col      |-> TRUE,
     validated_status_box |-> FALSE,
     mismatch_status_box  |-> [visible |-> FALSE, value |-> <<>>]]

\* Variant: the sum without the ":,.2f" format.
mismatch_value_unformatted(line_total_sum) ==
    <<"MISMATCH (Lines Sum: ", "$">> \o SignChars(line_total_sum)
    \o IntDigits(Abs(line_total_sum) \div Scale) \o <<")">>

mismatch_value(line_total_sum) ==
    <<"MISMATCH (Lines Sum: ", "$">> \o format_currency(line_total_sum) \o <<")">>

final_updates(json_data) ==
    LET content        == content_of(json_data)
        items          == line_items_raw(content)
        line_count     == Len(items)
        line_total_sum == sum_totals(items)
        invoice_total  == float(invoice_total_text(content))
        validated      == isclose(invoice_total, line_total_sum)
    IN  [status_output        |-> SuccessBanner,
         results_col          |-> TRUE,
         placeholder_col      |-> FALSE,
         results_header       |-> header_html(content),
         kpi_prompt           |-> Get(content.Prompt_Version, "N/A"),
         kpi_tokens           |-> Get(content.NoOfTokensUsed, "N/A"),
         kpi_cost             |-> <<"$">> \o format_cost(float(cost_text(content))),
         kpi_lines            |-> line_count,
         line_items_table     |-> line_items_df(items),
         json_output          |-> json_data,
         validated_status_box |-> validated,
         mismatch_status_box  |->
             IF validated
             THEN [visible |-> FALSE, value |-> <<>>]
             ELSE [visible |-> TRUE,
                   value |-> <<mismatch_value(line_total_sum)>>]]

NoResponse == [kind |-> "none", json_data |-> <<>>]

RequestException == [kind |-> "RequestException", json_data |-> <<>>]

Json(json_data) == [kind |-> "json", json_data |-> <<json_data>>]

process_invoice_data(pdf, resp) ==
    IF pdf = "None" THEN initial_updates(NoFileBanner)
    ELSE IF resp.kind = "RequestException" THEN initial_updates(NetworkBanner)
    ELSE IF try_raises(resp.json_data[1]) THEN initial_updates(ParseBanner)
    ELSE final_updates(resp.json_data[1])

(***************************************************************************)
(* One click of parse_button (lines 266-275): the handler runs and Gradio  *)
(* applies the returned dictionary; a component that is not a key of the   *)
(* dictionary keeps its state, and an update without a value keeps the     *)
(* component's value.                                                      *)
(***************************************************************************)
SetVisible(key, updates, old) ==
    IF key \in DOMAIN updates THEN updates[key] ELSE old

SetValue(key, updates, old) ==
    IF key \in DOMAIN updates THEN <<updates[key]>> ELSE old

Click(pdf, resp) ==
    \E updates \in {process_invoice_data(pdf, resp)} :
        /\ status_output' =
               IF "status_output" \in DOMAIN updates
               THEN updates.status_output ELSE status_output
        /\ results_col' = SetVisible("results_col", updates, results_col)
        /\ placeholder_col' =
               SetVisible("placeholder_col", updates, placeholder_col)
        /\ results_header' = SetValue("results_header", updates, results_header)
        /\ kpi_prompt' = SetValue("kpi_prompt", updates, kpi_prompt)
        /\ kpi_tokens' = SetValue("kpi_tokens", updates, kpi_tokens)
        /\ kpi_cost' = SetValue("kpi_cost", updates, kpi_cost)
        /\ kpi_lines' = SetValue("kpi_lines", updates, kpi_lines)
        /\ line_items_table' =
               IF "line_items_table" \in DOMAIN updates
               THEN updates.line_items_table ELSE line_items_table
        /\ json_output' = SetValue("json_output", updates, json_output)
        /\ validated_status_box' =
               SetVisible("validated_status_box", updates, validated_status_box)
        /\ mismatch_status_box' =
               IF "mismatch_status_box" \in DOMAIN updates
               THEN [visible |-> updates.mismatch_status_box.visible,
                     value   |-> Get(updates.mismatch_status_box.value,
                                     mismatch_status_box.value)]
               ELSE mismatch_status_box
        /\ returned' = DOMAIN updates

(***************************************************************************)
(* The layout (lines 222-263): the header, the KPI cards, the table, the   *)
(* two badges and the JSON view are children of results_col, and a child   *)
(* of a hidden column is not on the screen.                                *)
(***************************************************************************)
ResultsOnScreen == results_col

ValidatedOnScreen == results_col /\ validated_status_box

MismatchOnScreen == results_col /\ mismatch_status_box.visible

\* The components as the layout constructs them (lines 222-263).
InitComponents ==
    /\ status_output = ""
    /\ results_col = FALSE
    /\ placeholder_col = TRUE
    /\ results_header = <<>>
    /\ kpi_prompt = <<>>
    /\ kpi_tokens = <<>>
    /\ kpi_cost = <<>>
    /\ kpi_lines = <<>>
    /\ line_items_table = <<>>
    /\ json_output = <<>>
    /\ validated_status_box = FALSE
    /\ mismatch_status_box = [visible |-> FALSE, value |-> <<"MISMATCH">>]
    /\ returned = {}

(***************************************************************************)
(* The inputs: the JSON values the upstream service may answer with.       *)
(***************************************************************************)
Opt(S) == {<<>>} \cup {<<v>> : v \in S}

SeqsUpTo(S, n) == UNION {[1..k -> S] : k \in 0..n}

JsonNull == [kind |-> "null", chars |-> <<>>]

InvoiceTotalSamples ==
    {[kind |-> "str", chars |-> <<"1", "0", "0", ".", "0", "0">>],
     [kind |-> "str", chars |-> <<"1", ",", "0", "0", "0", ".", "0", "0">>],
     [kind |-> "str", chars |-> <<"0">>],
     [kind |-> "str", chars |-> <<"-", "1", "0", "0", ".", "0", "0">>],
     [kind |-> "str", chars |-> <<"a", "b", "c">>],
     JsonNull}

ItemTotalSamples ==
    {[kind |-> "str", chars |-> <<"1", "0", "0", ".", "9", "9">>],
     [kind |-> "str", chars |-> <<"1", "0", "1", ".", "0", "1">>],
     [kind |-> "str", chars |-> <<"1", "0", "1", ".", "0", "2">>],
     [kind |-> "str", chars |-> <<"6", "0", "0", ".", "0", "0">>],
     [kind |-> "str", chars |-> <<"4", "0", "0", ".", "0", "0">>],
     [kind |-> "str", chars |-> <<"0">>],
     [kind |-> "str", chars |-> <<"-", "1", "0", "0", ".", "9", "9">>],
     [kind |-> "str", chars |-> <<"a", "b", "c">>]}

CostSamples ==
    {[kind |-> "str", chars |-> <<"0", ".", "0", "5">>],
     [kind |-> "str", chars |-> <<"1", ",", "2", "3", "4", ".", "5", "0">>],
     [kind |-> "str", chars |-> <<"a", "b", "c">>]}

ThousandText ==
    [kind |-> "str", chars |-> <<"1", ",", "0", "0", "0", ".", "0", "0">>]

ItemDetailSamples ==
    {[date |-> <<>>, description |-> <<>>, quantity |-> <<>>],
     [date |-> <<"2024-01-05">>, description |-> <<"Service">>,
      quantity |-> <<"1">>]}

Items ==
    {[date |-> d.date, description |-> d.description, quantity |-> d.quantity,
      total |-> t] : d \in ItemDetailSamples, t \in Opt(ItemTotalSamples)}

BaseItem ==
    [date |-> <<"2024-01-05">>, description |-> <<"Service">>,
     quantity |-> <<"1">>, total |-> <<[kind |-> "str", chars |-> <<"1", "0", "0", ".", "9", "9">>]>>]

BaseAddress ==
    [street |-> <<"1 Main St">>, city |-> <<"Springfield">>,
     state |-> <<"IL">>, zip |-> <<"62701">>]

BaseLocation ==
    [location_name |-> <<"HQ">>, address |-> <<BaseAddress>>,
     line_items |-> <<<<BaseItem>>>>]

BaseContent ==
    [Prompt_Version |-> <<"v2">>, NoOfTokensUsed |-> <<"1500">>,
     GPTCostIncurred |-> <<[kind |-> "str", chars |-> <<"1", ",", "2", "3", "4", ".", "5", "0">>]>>,
     invoice_number |-> <<"INV-001">>,
     invoice_total |-> <<[kind |-> "str", chars |-> <<"1", "0", "0", ".", "0", "0">>]>>,
     accrual_date |-> <<"2024-01-31">>, due_date |-> <<"2024-02-15">>,
     service_locations |-> <<<<BaseLocation>>>>]

Payload(content) == [message |-> <<[content |-> <<content>>]>>]

\* Every key missing or holding its base value.
SparseAddresses ==
    {[street |-> a, city |-> b, state |-> c, zip |-> d] :
        a \in {<<>>, BaseAddress.street}, b \in {<<>>, BaseAddress.city},
        c \in {<<>>, BaseAddress.state}, d \in {<<>>, BaseAddress.zip}}

SparseItems == {BaseItem, [BaseItem EXCEPT !.total = <<>>]}

SparseLocations ==
    {[location_name |-> n, address |-> a, line_items |-> li] :
        n \in {<<>>, BaseLocation.location_name},
        a \in Opt(SparseAddresses),
        li \in Opt({<<i>> : i \in SparseItems})}

\* Samples of locations, for the lists of at most MaxLocations locations.
LocationSamples ==
    {[location_name |-> n.location_name, address |-> n.address,
      line_items |-> li] :
        n \in {EmptyLocation, BaseLocation,
               [BaseLocation EXCEPT !.address = <<[BaseAddress EXCEPT !.street = <<>>,
                                                                 !.zip = <<>>]>>]},
        li \in {<<>>, <<<<>>>>, <<<<BaseItem>>>>,
                <<<<[BaseItem EXCEPT !.total = <<[kind |-> "str", chars |-> <<"a", "b", "c">>]>>]>>>>,
                <<<<[BaseItem EXCEPT !.total = <<[kind |-> "str", chars |-> <<"6", "0", "0", ".", "0", "0">>]>>],
                    [BaseItem EXCEPT !.total = <<[kind |-> "str", chars |-> <<"4", "0", "0", ".", "0", "0">>]>>]>>>>}}

\* The payloads of the sessions of several requests.
SessionLocationLists ==
    {<<>>, <<<<>>>>, <<<<EmptyLocation>>>>, <<<<BaseLocation>>>>,
     <<<<[BaseLocation EXCEPT !.line_items = <<<<>>>>]>>>>,
     <<<<[BaseLocation EXCEPT
             !.line_items = <<<<[BaseItem EXCEPT !.total = <<[kind |-> "str", chars |-> <<"1", "0", "1", ".", "0", "2">>]>>]>>>>]>>>>,
     <<<<[BaseLocation EXCEPT
             !.line_items = <<<<[BaseItem EXCEPT !.total = <<[kind |-> "str", chars |-> <<"a", "b", "c">>]>>]>>>>]>>>>,
     <<<<BaseLocation,
         [EmptyLocation EXCEPT
             !.line_items = <<<<[BaseItem EXCEPT !.total = <<[kind |-> "str", chars |-> <<"a", "b", "c">>]>>]>>>>]>>>>}

SessionPayloads ==
    {Payload([BaseContent EXCEPT !.invoice_total = v,
                                 !.service_locations = sl]) :
        v \in {<<>>, <<[kind |-> "str", chars |-> <<"1", "0", "0", ".", "0", "0">>]>>, <<[kind |-> "str", chars |-> <<"a", "b", "c">>]>>},
        sl \in SessionLocationLists}

(***************************************************************************)
(* Spec: a session, any sequence of clicks.                                *)
(***************************************************************************)
Init ==
    /\ InitComponents
    /\ pdf_file = "None"
    /\ response = NoResponse
    /\ pc = "idle"

\* Lines 56-59: no file is uploaded.
ClickNoFile ==
    /\ Click("None", NoResponse)
    /\ pdf_file' = "None"
    /\ response' = NoResponse
    /\ pc' = "done"

\* Lines 65-78: the upstream call (the post, raise_for_status or the decoding
\* of the body on line 73) raises a RequestException.
ClickRequestException ==
    /\ Click("file", RequestException)
    /\ pdf_file' = "file"
    /\ response' = RequestException
    /\ pc' = "done"

\* Lines 80-171: the upstream call returns a JSON object.
ClickResponse ==
    \E p \in SessionPayloads :
        /\ Click("file", Json(p))
        /\ pdf_file' = "file"
        /\ response' = Json(p)
        /\ pc' = "done"

Next == ClickNoFile \/ ClickRequestException \/ ClickResponse

Spec == Init /\ [][Next]_vars

(***************************************************************************)
(* SpecRequest: one call of the handler on each input, from the            *)
(* constructed components.                                                 *)
(***************************************************************************)
Received(json_data) == pdf_file = "file" /\ response = Json(json_data)

\* No file, or a RequestException.
FailedInput ==
    \/ pdf_file = "None" /\ response = NoResponse
    \/ pdf_file = "file" /\ response = RequestException

\* Reconciliation: every invoice total against every list of at most MaxItems
\* items of the only location, and every cost against every invoice total.
ReconciliationInput ==
    \/ \E v \in Opt(InvoiceTotalSamples), li \in Opt(SeqsUpTo(Items, MaxItems)) :
           Received(Payload([BaseContent EXCEPT
               !.invoice_total = v,
               !.service_locations =
                   <<<<[BaseLocation EXCEPT !.line_items = li]>>>>]))
    \/ \E c \in Opt(CostSamples), v \in Opt(InvoiceTotalSamples) :
           Received(Payload([BaseContent EXCEPT
               !.GPTCostIncurred = c, !.invoice_total = v]))

\* Every key missing or holding its base value.
SparseInput ==
    \/ Received([message |-> <<>>])
    \/ Received([message |-> <<EmptyMessage>>])
    \/ \E pv \in {<<>>, BaseContent.Prompt_Version},
          tk \in {<<>>, BaseContent.NoOfTokensUsed},
          c  \in {<<>>, BaseContent.GPTCostIncurred},
          n  \in {<<>>, BaseContent.invoice_number},
          v  \in {<<>>, BaseContent.invoice_total},
          ad \in {<<>>, BaseContent.accrual_date},
          dd \in {<<>>, BaseContent.due_date},
          sl \in Opt({<<l>> : l \in SparseLocations}) :
           Received(Payload(
               [Prompt_Version |-> pv, NoOfTokensUsed |-> tk,
                GPTCostIncurred |-> c, invoice_number |-> n,
                invoice_total |-> v, accrual_date |-> ad, due_date |-> dd,
                service_locations |-> sl]))

\* Every list of at most MaxLocations locations.
MultiLocationInput ==
    \E v \in {BaseContent.invoice_total, <<ThousandText>>},
       ls \in SeqsUpTo(LocationSamples, MaxLocations) :
        Received(Payload([BaseContent EXCEPT !.invoice_total = v,
                                             !.service_locations = <<ls>>]))

InitRequest ==
    /\ InitComponents
    /\ pc = "pending"
    /\ FailedInput \/ ReconciliationInput \/ SparseInput \/ MultiLocationInput

Handle ==
    /\ pc = "pending"
    /\ Click(pdf_file, response)
    /\ pc' = "done"
    /\ UNCHANGED <<pdf_file, response>>

NextRequest == Handle

SpecRequest == InitRequest /\ [][NextRequest]_vars

(***************************************************************************)
(* Vocabulary of the properties: the payload of the latest call, read      *)
(* key by key.                                                             *)
(***************************************************************************)
Done == pc = "done"

Answered == Done /\ pdf_file = "file" /\ response.kind = "json"

Succeeded == Answered /\ status_output = SuccessBanner

LatestJson == response.json_data[1]

LatestContent ==
    IF Len(LatestJson.message) = 1 /\ Len(LatestJson.message[1].content) = 1
    THEN LatestJson.message[1].content[1]
    ELSE EmptyContent

LatestLocations ==
    IF Len(LatestContent.service_locations) = 1
    THEN LatestContent.service_locations[1]
    ELSE <<>>

FirstLocationItems ==
    IF Len(LatestLocations) >= 1 /\ Len(LatestLocations[1].line_items) = 1
    THEN LatestLocations[1].line_items[1]
    ELSE <<>>

\* digits [ "." digits ] or "." digits, after an optional sign
IsDecimalNumeral(s) ==
    LET u    == IF Len(s) > 0 /\ s[1] \in {"+", "-"} THEN Tail(s) ELSE s
        k    == IF \E i \in 1..Len(u) : u[i] \notin Digits
                THEN CHOOSE i \in 1..Len(u) :
                         u[i] \notin Digits /\ \A j \in 1..(i - 1) : u[j] \in Digits
                ELSE Len(u) + 1
        rest == SubSeq(u, k + 1, Len(u))
    IN  IF k > Len(u) THEN Len(u) > 0
        ELSE /\ u[k] = "."
             /\ \A i \in 1..Len(rest) : rest[i] \in Digits
             /\ k > 1 \/ Len(rest) > 0

\* The key is present and its value, commas removed, is no decimal numeral.
Malformed(field) ==
    Len(field) = 1 /\ ~IsDecimalNumeral(replace_commas(str(field[1])))

\* The number a numeric key stands for: 0 when the key is missing.
NumberOf(field) ==
    IF Len(field) = 0 THEN 0 ELSE float(replace_commas(str(field[1])))

RECURSIVE SumOfItems(_, _)
SumOfItems(items, n) ==
    IF n = 0 THEN 0 ELSE SumOfItems(items, n - 1) + NumberOf(items[n].total)

invoiceTotal == NumberOf(LatestContent.invoice_total)

lineTotalSum == SumOfItems(FirstLocationItems, Len(FirstLocationItems))

WithinTolerance(a, b) == RelTolInverse * Abs(a - b) <= Max(Abs(a), Abs(b))

ShowsValidated == validated_status_box /\ ~mismatch_status_box.visible

ShowsMismatch == mismatch_status_box.visible /\ ~validated_status_box

\* The text after the "$" of a currency text, read back as a number.
CurrencyValue(text) == float(replace_commas(Tail(text)))

ErrorKeys ==
    {"status_output", "results_col", "placeholder_col",
     "validated_status_box", "mismatch_status_box"}

PlaceholderState ==
    /\ ~results_col
    /\ placeholder_col
    /\ ~validated_status_box
    /\ ~mismatch_status_box.visible

(***************************************************************************)
(* C1.  After a successful call the VALIDATED badge is shown and the       *)
(* MISMATCH badge hidden exactly when |invoiceTotal - lineTotalSum| <=     *)
(* 0.01 * max(|invoiceTotal|, |lineTotalSum|), and otherwise the MISMATCH  *)
(* badge is shown and the VALIDATED badge hidden; both totals 0 is         *)
(* Validated and exactly one of them 0 is Mismatch.                        *)
(***************************************************************************)
C1_Classification ==
    Succeeded =>
        /\ ShowsValidated <=> WithinTolerance(invoiceTotal, lineTotalSum)
        /\ ShowsMismatch <=> ~WithinTolerance(invoiceTotal, lineTotalSum)
        /\ (invoiceTotal = 0 /\ lineTotalSum = 0) => ShowsValidated
        /\ ((invoiceTotal = 0) # (lineTotalSum = 0)) => ShowsMismatch

C1_Witness ==
    /\ Succeeded
    /\ invoiceTotal # lineTotalSum
    /\ invoiceTotal # 0
    /\ ShowsValidated

(***************************************************************************)
(* C2.  As claimed: invoiceTotal 100.00 with lineTotalSum 100.99 is        *)
(* Validated, and with lineTotalSum 101.01 it is Mismatch.                 *)
(***************************************************************************)
C2_AsClaimed ==
    (Succeeded /\ invoiceTotal = 10000) =>
        /\ lineTotalSum = 10099 => ShowsValidated
        /\ lineTotalSum = 10101 => ShowsMismatch

(***************************************************************************)
(* C2, amended.  invoiceTotal 100.00 is Validated with lineTotalSum 100.99 *)
(* and also with 101.01 (1.01 <= 0.01 * 101.01); it is Mismatch with       *)
(* lineTotalSum 101.02.                                                    *)
(***************************************************************************)
C2_Boundary ==
    (Succeeded /\ invoiceTotal = 10000) =>
        /\ lineTotalSum = 10099 => ShowsValidated
        /\ lineTotalSum = 10101 => ShowsValidated
        /\ lineTotalSum = 10102 => ShowsMismatch

C2_Witness ==
    Succeeded /\ invoiceTotal = 10000 /\ lineTotalSum = 10101 /\ ShowsValidated

(***************************************************************************)
(* C3.  As claimed: a successful call with an empty list of line items     *)
(* makes neither badge visible.                                            *)
(***************************************************************************)
C3_AsClaimed ==
    (Succeeded /\ Len(FirstLocationItems) = 0) =>
        ~validated_status_box /\ ~mismatch_status_box.visible

(***************************************************************************)
(* C3, amended.  A successful call with an empty list of line items has    *)
(* lineTotalSum 0 and shows exactly one badge: VALIDATED when the invoice  *)
(* total is 0 or missing, and otherwise MISMATCH with the text             *)
(* "MISMATCH (Lines Sum: $0.00)".                                          *)
(***************************************************************************)
C3_EmptyListBadge ==
    (Succeeded /\ Len(FirstLocationItems) = 0) =>
        /\ invoiceTotal = 0 => ShowsValidated
        /\ invoiceTotal # 0 =>
               /\ ShowsMismatch
               /\ mismatch_status_box.value =
                      <<"MISMATCH (Lines Sum: ", "$", "0", ".", "0", "0", ")">>

C3_Witness ==
    /\ Succeeded
    /\ Len(FirstLocationItems) = 0
    /\ invoiceTotal # 0
    /\ ShowsMismatch

(***************************************************************************)
(* C4.  After a successful call on n line items: when n >= 1 the table has *)
(* n + 1 rows, row i carries the index i and the total of item i, and the  *)
(* last row is the "Subtotal" row whose total is the sum of the n totals;  *)
(* when n = 0 the table is empty; the line count of the KPI card is n.     *)
(***************************************************************************)
C4_Table ==
    Succeeded =>
        LET n == Len(FirstLocationItems)
        IN  /\ kpi_lines = <<n>>
            /\ n = 0 => line_items_table = <<>> /\ lineTotalSum = 0
            /\ n >= 1 =>
                   /\ Len(line_items_table) = n + 1
                   /\ \A i \in 1..n :
                          /\ line_items_table[i].Line = <<i>>
                          /\ line_items_table[i].Description # <<"Subtotal">>
                          /\ CurrencyValue(line_items_table[i].Total)
                                 = NumberOf(FirstLocationItems[i].total)
                   /\ line_items_table[n + 1].Description = <<"Subtotal">>
                   /\ line_items_table[n + 1].Line = <<>>
                   /\ CurrencyValue(line_items_table[n + 1].Total) = lineTotalSum

C4_Witness ==
    /\ Succeeded
    /\ Len(FirstLocationItems) = 2
    /\ Len(line_items_table) = 3
    /\ lineTotalSum >= 100000

(***************************************************************************)
(* More vocabulary: what can be wrong with a key that is present.          *)
(***************************************************************************)
MalformedNumeral ==
    \/ Malformed(LatestContent.GPTCostIncurred)
    \/ Malformed(LatestContent.invoice_total)
    \/ \E i \in 1..Len(FirstLocationItems) : Malformed(FirstLocationItems[i].total)

EmptyLocationList ==
    Len(LatestContent.service_locations) = 1 /\ Len(LatestLocations) = 0

Missing(key) == Len(LatestContent[key]) = 0

AddressMissing(loc) ==
    \/ Len(loc.address) = 0
    \/ \A k \in {"street", "city", "state", "zip"} : Len(loc.address[1][k]) = 0

(***************************************************************************)
(* C5.  A missing key never causes the error state: a call that received   *)
(* a JSON object ends in the error state only when a key that is present   *)
(* holds an unparsable numeral or an empty list of locations; and after a  *)
(* successful call every missing key shows its default: "N/A" for a text,  *)
(* "Address not found" for an address, 0 for the cost, the invoice total   *)
(* and an item total, and no line items.                                   *)
(***************************************************************************)
C5_Defaults ==
    /\ Answered =>
           /\ status_output \in {SuccessBanner, ParseBanner}
           /\ status_output = ParseBanner => MalformedNumeral \/ EmptyLocationList
    /\ Succeeded =>
           LET header == results_header[1]
               n      == Len(FirstLocationItems)
           IN  /\ Missing("Prompt_Version") => kpi_prompt = <<"N/A">>
               /\ Missing("NoOfTokensUsed") => kpi_tokens = <<"N/A">>
               /\ Missing("GPTCostIncurred") => kpi_cost = <<<<"$", "0", ".", "0", "0", "0", "0">>>>
               /\ Missing("invoice_number") => header.invoice_number = "N/A"
               /\ Missing("invoice_total") => header.invoice_total = <<"$", "0", ".", "0", "0">>
               /\ Missing("accrual_date") => header.accrual_date = "N/A"
               /\ Missing("due_date") => header.due_date = "N/A"
               /\ Missing("service_locations") =>
                      header.service_locations = <<>>
               /\ \A i \in 1..Len(LatestLocations) :
                      /\ Len(LatestLocations[i].location_name) = 0 =>
                             header.service_locations[i].dt = "N/A"
                      /\ AddressMissing(LatestLocations[i]) =>
                             header.service_locations[i].dd = <<"Address not found">>
               /\ n = 0 => line_items_table = <<>> /\ kpi_lines = <<0>>
               /\ \A i \in 1..n :
                      Len(FirstLocationItems[i].total) = 0 =>
                          line_items_table[i].Total = <<"$", "0", ".", "0", "0">>

C5_Witness ==
    /\ Succeeded
    /\ Missing("GPTCostIncurred")
    /\ Missing("invoice_total")
    /\ Missing("Prompt_Version")
    /\ Len(LatestLocations) = 1
    /\ AddressMissing(LatestLocations[1])
    /\ Len(FirstLocationItems) = 1
    /\ Len(FirstLocationItems[1].total) = 0

(***************************************************************************)
(* C6.  As claimed: a payload whose service_locations list is present and  *)
(* empty is processed successfully with no line items: line count 0 and    *)
(* an empty table.                                                         *)
(***************************************************************************)
C6_EmptyLocationsSucceed ==
    (Answered /\ EmptyLocationList /\ ~MalformedNumeral) =>
        /\ status_output = SuccessBanner
        /\ results_col
        /\ kpi_lines = <<0>>
        /\ line_items_table = <<>>

FirstLocationAlone ==
    [message |-> <<[content |->
        <<[LatestContent EXCEPT
              !.service_locations = <<<<LatestLocations[1]>>>>]>>]>>]

C9_FirstLocationOnly ==
    (Answered /\ Len(LatestLocations) >= 1) =>
        \A alone \in {process_invoice_data("file", Json(FirstLocationAlone))} :
            /\ status_output = alone.status_output
            /\ returned = DOMAIN alone
            /\ validated_status_box = alone.validated_status_box
            /\ mismatch_status_box.visible = alone.mismatch_status_box.visible
            /\ Succeeded =>
                   /\ kpi_lines = <<alone.kpi_lines>>
                   /\ kpi_lines = <<Len(FirstLocationItems)>>
                   /\ line_items_table = alone.line_items_table
                   /\ Len(results_header[1].service_locations)
                          = Len(LatestLocations)
                   /\ \A i \in 1..Len(LatestLocations) :
                          Len(LatestLocations[i].location_name) = 1 =>
                              results_header[1].service_locations[i].dt
                                  = LatestLocations[i].location_name[1]

C9_Witness ==
    /\ Succeeded
    /\ Len(LatestLocations) = 2
    /\ Len(FirstLocationItems) = 2
    /\ Len(LatestLocations[2].line_items) = 1
    /\ \E i \in 1..Len(LatestLocations[2].line_items[1]) :
           Malformed(LatestLocations[2].line_items[1][i].total)

(***************************************************************************)
(* C8.  Whenever the latest call failed (no file, a RequestException, or   *)
(* a payload that cannot be processed) the results column is hidden, the   *)
(* placeholder is visible, both badges are hidden and the status shows     *)
(* the error banner of that failure, so that nothing of an earlier         *)
(* successful call is on the screen.                                       *)
(***************************************************************************)
LatestFailed ==
    /\ Done
    /\ \/ pdf_file = "None"
       \/ response.kind = "RequestException"
       \/ response.kind = "json" /\ (MalformedNumeral \/ EmptyLocationList)

C8_FailureResets ==
    LatestFailed =>
        /\ PlaceholderState
        /\ ~ResultsOnScreen /\ ~ValidatedOnScreen /\ ~MismatchOnScreen
        /\ status_output \in ErrorBanners
        /\ pdf_file = "None" => status_output = NoFileBanner
        /\ (pdf_file = "file" /\ response.kind = "RequestException")
               => status_output = NetworkBanner
        /\ (pdf_file = "file" /\ response.kind = "json")
               => status_output = ParseBanner

C8_Witness ==
    /\ LatestFailed
    /\ json_output # <<>>
    /\ Len(line_items_table) > 0
    /\ ~ResultsOnScreen

(***************************************************************************)
(* C10.  The two badges are never both visible; after a successful call    *)
(* exactly one is visible; and a badge is visible only when the latest     *)
(* call succeeded and set it.                                              *)
(***************************************************************************)
C10_Badges ==
    /\ ~(validated_status_box /\ mismatch_status_box.visible)
    /\ Succeeded => (validated_status_box # mismatch_status_box.visible)
    /\ validated_status_box =>
           Succeeded /\ WithinTolerance(invoiceTotal, lineTotalSum)
    /\ mismatch_status_box.visible =>
           Succeeded /\ ~WithinTolerance(invoiceTotal, lineTotalSum)

C10_Witness ==
    /\ Succeeded
    /\ validated_status_box
    /\ ~mismatch_status_box.visible
    /\ mismatch_status_box.value # <<"MISMATCH">>

====
